---- MODULE Spec2Model ----
(***************************************************************************)
(* TORM: a self-describing type-length-value codec.  The repository holds  *)
(* two implementations of serialize/deserialize; both are modelled.  The   *)
(* operators of the first one (tag table Null=1 .. Object=23) carry the    *)
(* suffix 1, those of the second one (Null=1 .. Object=7, typed arrays     *)
(* 10..17) the suffix 2.                                                   *)
(*                                                                         *)
(* JavaScript values are records with a "kind" field.  A number is the     *)
(* big-endian byte sequence of its IEEE-754 double (every NaN is the one   *)
(* canonical NaN, as in the language); a string is its sequence of UTF-16  *)
(* code units; an ArrayBuffer is a sequence of bytes; a typed array is a   *)
(* view (byteOffset, byteLength) over an ArrayBuffer; an object is the     *)
(* sequence of its own enumerable entries in property order plus the       *)
(* enumerable entries it inherits.                                         *)
(***************************************************************************)
EXTENDS Integers, Sequences, FiniteSets, TLC

VARIABLES impl, original, pc, tree, allocated, writer, written, wire, decoded

vars == <<impl, original, pc, tree, allocated, writer, written, wire, decoded>>

(* ------------------------------ bounds --------------------------------- *)

\* longest input string, in UTF-16 code units
MaxStrLen == 2
\* longest input array
MaxArrLen == 2
\* most elements of the ArrayBuffer under an input typed array
MaxTAElems == 2

(* --------------------------- small helpers ----------------------------- *)

Min(a, b) == IF a < b THEN a ELSE b

Bytes == 0..255

\* A decoded 32-bit length of 2^30 or more is represented by Huge: the
\* integers of the checker are 32 bits wide.  Every buffer of the model is
\* far shorter than Huge, so a bounds test, the clamping of slice and a loop
\* bound behave as with the exact value.
Huge == 1073741824

RECURSIVE SeqsUpTo(_, _)
SeqsUpTo(S, n) ==
    IF n = 0 THEN {<<>>}
    ELSE LET shorter == SeqsUpTo(S, n - 1)
         IN  shorter \cup {Append(s, x) : s \in {t \in shorter : Len(t) = n - 1}, x \in S}

(* ---------------------------- JS numbers ------------------------------- *)

NaN == <<127, 248, 0, 0, 0, 0, 0, 0>>
Zero == <<0, 0, 0, 0, 0, 0, 0, 0>>
One == <<63, 240, 0, 0, 0, 0, 0, 0>>
PI == <<64, 9, 33, 251, 84, 68, 45, 24>>
\* 8.64e15, the largest time value of a Date
MaxTime == <<67, 62, 178, 8, 194, 220, 0, 0>>

IsNaNBits(b) ==
    /\ b[1] % 128 = 127
    /\ b[2] >= 240
    /\ (b[2] % 16 # 0 \/ \E i \in 3..8 : b[i] # 0)

RECURSIVE LexGreater(_, _, _)
LexGreater(a, b, i) ==
    IF i > Len(a) THEN FALSE
    ELSE IF a[i] # b[i] THEN a[i] > b[i]
    ELSE LexGreater(a, b, i + 1)

Pow2(k) == CASE k = 0 -> 1 [] k = 1 -> 2 [] k = 2 -> 4 [] k = 3 -> 8 [] k = 4 -> 16
             [] k = 5 -> 32 [] k = 6 -> 64 [] k = 7 -> 128 [] OTHER -> 256

\* byte x with its k lowest bits cleared (k may be <= 0 or >= 8)
ClearLow(x, k) == IF k <= 0 THEN x ELSE IF k >= 8 THEN 0 ELSE x - (x % Pow2(k))

\* TimeClip of the Date constructor: NaN outside +-8.64e15, else the double
\* truncated towards zero (+0 for every magnitude below 1).
TimeClip(b) ==
    LET abs == [b EXCEPT ![1] = b[1] % 128]
        e == (b[1] % 128) * 16 + b[2] \div 16
        k == 52 - (e - 1023)
    IN  IF LexGreater(abs, MaxTime, 1) THEN NaN
        ELSE IF e < 1023 THEN Zero
        ELSE << b[1],
                (b[2] \div 16) * 16 + ClearLow(b[2] % 16, k - 48),
                ClearLow(b[3], k - 40), ClearLow(b[4], k - 32), ClearLow(b[5], k - 24),
                ClearLow(b[6], k - 16), ClearLow(b[7], k - 8), ClearLow(b[8], k) >>

(* ----------------------------- JS values ------------------------------- *)

Null == [kind |-> "null"]
Undefined == [kind |-> "undefined"]
\* a function is an object too: it has properties (none enumerable here)
Function == [kind |-> "function", own |-> <<>>, inherited |-> <<>>]
Bool(b) == [kind |-> "boolean", bool |-> b]
Num(f) == [kind |-> "number", f64 |-> f]
Str(s) == [kind |-> "string", units |-> s]
DateOf(t) == [kind |-> "Date", time |-> t]
Arr(items) == [kind |-> "Array", items |-> items]
Obj(own) == [kind |-> "Object", own |-> own, inherited |-> <<>>]
Typed(ctor, buffer, byteOffset, byteLength) ==
    [kind |-> ctor, buffer |-> buffer, byteOffset |-> byteOffset, byteLength |-> byteLength]

BYTES_PER_ELEMENT ==
    [Int8Array |-> 1, Int16Array |-> 2, Int32Array |-> 4, Uint8Array |-> 1,
     Uint16Array |-> 2, Uint32Array |-> 4, Float32Array |-> 4, Float64Array |-> 8]

TypedArrayKinds == DOMAIN BYTES_PER_ELEMENT

\* typeof value
TypeOf(value) ==
    IF value.kind \in {"undefined", "function", "boolean", "number", "string"}
    THEN value.kind
    ELSE "object"

\* new Date(number)
NewDate(f) == DateOf(TimeClip(f))

\* new Ctor(arrayBuffer): a RangeError unless the byte length is a multiple
\* of the element size
CanConstruct(ctor, buffer) == Len(buffer) % BYTES_PER_ELEMENT[ctor] = 0
NewTyped(ctor, buffer) == Typed(ctor, buffer, 0, Len(buffer))

\* the bytes a typed array views
ViewBytes(arr) == SubSeq(arr.buffer, arr.byteOffset + 1, arr.byteOffset + arr.byteLength)

(* ----------------------- TextEncoder / TextDecoder --------------------- *)

IsHighSurrogate(u) == u >= 55296 /\ u <= 56319
IsLowSurrogate(u) == u >= 56320 /\ u <= 57343

Utf8(cp) ==
    IF cp < 128 THEN <<cp>>
    ELSE IF cp < 2048 THEN <<192 + cp \div 64, 128 + (cp % 64)>>
    ELSE IF cp < 65536 THEN <<224 + cp \div 4096, 128 + ((cp \div 64) % 64), 128 + (cp % 64)>>
    ELSE <<240 + cp \div 262144, 128 + ((cp \div 4096) % 64),
           128 + ((cp \div 64) % 64), 128 + (cp % 64)>>

\* TextEncoder.encode: a surrogate pair is one code point, a lone surrogate
\* becomes U+FFFD
RECURSIVE encodeFrom(_, _)
encodeFrom(s, i) ==
    IF i > Len(s) THEN <<>>
    ELSE IF IsHighSurrogate(s[i]) /\ i < Len(s) /\ IsLowSurrogate(s[i + 1])
    THEN Utf8(65536 + (s[i] - 55296) * 1024 + (s[i + 1] - 56320)) \o encodeFrom(s, i + 2)
    ELSE IF IsHighSurrogate(s[i]) \/ IsLowSurrogate(s[i])
    THEN Utf8(65533) \o encodeFrom(s, i + 1)
    ELSE Utf8(s[i]) \o encodeFrom(s, i + 1)

encode(s) == encodeFrom(s, 1)

\* a code point as UTF-16 code units
Utf16(cp) ==
    IF cp < 65536 THEN <<cp>>
    ELSE <<55296 + (cp - 65536) \div 1024, 56320 + ((cp - 65536) % 1024)>>

\* number of continuation bytes a lead byte asks for (0: not a lead byte)
Needed(c) ==
    IF c >= 194 /\ c <= 223 THEN 1
    ELSE IF c >= 224 /\ c <= 239 THEN 2
    ELSE IF c >= 240 /\ c <= 244 THEN 3
    ELSE 0

\* the range allowed for the first continuation byte after lead byte c
Lower(c) == IF c = 224 THEN 160 ELSE IF c = 240 THEN 144 ELSE 128
Upper(c) == IF c = 237 THEN 159 ELSE IF c = 244 THEN 143 ELSE 191

\* how many of the bytes after the lead byte at i are valid continuations
RECURSIVE Continuations(_, _, _, _)
Continuations(b, i, k, need) ==
    IF k > need \/ i + k > Len(b) THEN k - 1
    ELSE LET c == b[i + k]
             lo == IF k = 1 THEN Lower(b[i]) ELSE 128
             hi == IF k = 1 THEN Upper(b[i]) ELSE 191
         IN  IF c >= lo /\ c <= hi THEN Continuations(b, i, k + 1, need) ELSE k - 1

CodePoint(b, i, need) ==
    CASE need = 1 -> (b[i] - 192) * 64 + (b[i + 1] - 128)
      [] need = 2 -> (b[i] - 224) * 4096 + (b[i + 1] - 128) * 64 + (b[i + 2] - 128)
      [] OTHER -> (b[i] - 240) * 262144 + (b[i + 1] - 128) * 4096
                  + (b[i + 2] - 128) * 64 + (b[i + 3] - 128)

\* the UTF-8 decoder of TextDecoder: every ill-formed subsequence is U+FFFD
RECURSIVE decodeFrom(_, _)
decodeFrom(b, i) ==
    IF i > Len(b) THEN <<>>
    ELSE IF b[i] < 128 THEN <<b[i]>> \o decodeFrom(b, i + 1)
    ELSE IF Needed(b[i]) = 0 THEN <<65533>> \o decodeFrom(b, i + 1)
    ELSE LET need == Needed(b[i])
             ok == Continuations(b, i, 1, need)
         IN  IF ok = need
             THEN Utf16(CodePoint(b, i, need)) \o decodeFrom(b, i + need + 1)
             ELSE <<65533>> \o decodeFrom(b, i + ok + 1)

\* TextDecoder.decode with the default options: a leading byte order mark
\* is not part of the result
decode(b) ==
    LET s == decodeFrom(b, 1)
    IN  IF Len(s) > 0 /\ s[1] = 65279 THEN Tail(s) ELSE s

(* --------------------------- object semantics -------------------------- *)

\* "__proto__"
ProtoKey == <<95, 95, 112, 114, 111, 116, 111, 95, 95>>

\* an array index: a canonical decimal numeral (up to nine digits here)
IsIndex(key) ==
    /\ Len(key) >= 1
    /\ Len(key) <= 9
    /\ \A i \in 1..Len(key) : key[i] >= 48 /\ key[i] <= 57
    /\ (Len(key) = 1 \/ key[1] # 48)

RECURSIVE IndexValue(_)
IndexValue(key) ==
    IF Len(key) = 0 THEN 0
    ELSE IndexValue(SubSeq(key, 1, Len(key) - 1)) * 10 + (key[Len(key)] - 48)

\* where a new key goes in the own-property order: array indices ascending
\* first, then the other keys in insertion order
InsertAt(own, key) ==
    IF ~IsIndex(key) THEN Len(own) + 1
    ELSE LET later == {i \in 1..Len(own) :
                          ~IsIndex(own[i].key) \/ IndexValue(own[i].key) > IndexValue(key)}
         IN  IF later = {} THEN Len(own) + 1
             ELSE CHOOSE i \in later : \A j \in later : i <= j

\* obj[key] = val on an ordinary object: the key "__proto__" runs the
\* inherited setter and creates no own property
SetProperty(own, key, val) ==
    IF key = ProtoKey THEN own
    ELSE IF \E i \in 1..Len(own) : own[i].key = key
    THEN [i \in 1..Len(own) |-> IF own[i].key = key THEN [key |-> key, val |-> val] ELSE own[i]]
    ELSE LET at == InsertAt(own, key)
         IN  SubSeq(own, 1, at - 1) \o <<[key |-> key, val |-> val]>> \o SubSeq(own, at, Len(own))

\* the property key a value used as obj[value] turns into.  Exact for
\* strings, null, booleans and plain objects; the text of any other value
\* (a number, a Date, an array) is not modelled and stands as "?".
ToPropertyKey(value) ==
    CASE value.kind = "string" -> value.units
      [] value.kind = "null" -> <<110, 117, 108, 108>>
      [] value.kind = "boolean" ->
            IF value.bool THEN <<116, 114, 117, 101>> ELSE <<102, 97, 108, 115, 101>>
      [] value.kind = "Object" ->
            <<91, 111, 98, 106, 101, 99, 116, 32, 79, 98, 106, 101, 99, 116, 93>>
      [] OTHER -> <<63>>

\* for (key in value) if (hasOwnProperty(value, key)): for-in visits own and
\* inherited enumerable keys, the test keeps the own ones
ForInKeys(value) ==
    [i \in 1..(Len(value.own) + Len(value.inherited)) |->
        IF i <= Len(value.own)
        THEN [key |-> value.own[i].key, own |-> TRUE]
        ELSE [key |-> value.inherited[i - Len(value.own)].key, own |-> FALSE]]

HasOwnProperty(value, key) == \E i \in 1..Len(value.own) : value.own[i].key = key

Get(value, key) ==
    IF HasOwnProperty(value, key)
    THEN value.own[CHOOSE i \in 1..Len(value.own) : value.own[i].key = key].val
    ELSE value.inherited[CHOOSE i \in 1..Len(value.inherited) : value.inherited[i].key = key].val

(* ---------------------- ArrayBuffer and DataView ----------------------- *)

NewArrayBuffer(n) == [i \in 1..n |-> 0]

InBounds(buffer, offset, n) == offset >= 0 /\ offset + n <= Len(buffer)

getUint8(buffer, offset) == buffer[offset + 1]

getUint32(buffer, offset) ==
    IF buffer[offset + 1] >= 64 THEN Huge
    ELSE buffer[offset + 1] * 16777216 + buffer[offset + 2] * 65536
         + buffer[offset + 3] * 256 + buffer[offset + 4]

getFloat64(buffer, offset) ==
    LET b == SubSeq(buffer, offset + 1, offset + 8)
    IN  IF IsNaNBits(b) THEN NaN ELSE b

\* buffer.slice(begin, end): end is clamped to the buffer's length
slice(buffer, begin, end) == SubSeq(buffer, begin + 1, Min(end, Len(buffer)))

Uint32Bytes(n) == <<n \div 16777216, (n \div 65536) % 256, (n \div 256) % 256, n % 256>>

\* The buffer under construction: its bytes, how often each byte has been
\* written (history), the name of the error thrown ("" while none), and the
\* writeChunk calls made so far with their start and end offsets (history).
NewWriter(n) ==
    [buffer |-> NewArrayBuffer(n), count |-> NewArrayBuffer(n), err |-> "", log |-> <<>>]

\* the bounds-checked store behind DataView.set* and TypedArray.set: the
\* whole store is refused with a RangeError when it does not fit
store(w, offset, bytes) ==
    IF w.err # "" \/ (Len(bytes) = 0 /\ offset <= Len(w.buffer)) THEN w
    ELSE IF offset + Len(bytes) > Len(w.buffer) THEN [w EXCEPT !.err = "RangeError"]
    ELSE [w EXCEPT
            !.buffer = [i \in 1..Len(w.buffer) |->
                           IF i > offset /\ i <= offset + Len(bytes)
                           THEN bytes[i - offset] ELSE w.buffer[i]],
            !.count = [i \in 1..Len(w.buffer) |->
                           IF i > offset /\ i <= offset + Len(bytes)
                           THEN w.count[i] + 1 ELSE w.count[i]]]

setUint8(w, offset, byte) == store(w, offset, <<byte>>)
setUint32(w, offset, n) == store(w, offset, Uint32Bytes(n))
setFloat64(w, offset, f) == store(w, offset, f)
set(w, source, offset) == store(w, offset, source)

(* ======================= first implementation ========================== *)

TYPES1 ==
    [Null |-> 1, Boolean |-> 2, Number |-> 3, Date |-> 4,
     Int8Array |-> 11, Int16Array |-> 12, Int32Array |-> 13, Uint8Array |-> 14,
     Uint16Array |-> 15, Uint32Array |-> 16, Float32Array |-> 17, Float64Array |-> 18,
     String |-> 21, Array |-> 22, Object |-> 23]

typeIndexOf(value) ==
    IF value.kind = "function" \/ value.kind = "null" \/ value.kind = "undefined"
    THEN TYPES1.Null
    ELSE IF value.kind = "Int8Array" THEN TYPES1.Int8Array
    ELSE IF value.kind = "Int16Array" THEN TYPES1.Int16Array
    ELSE IF value.kind = "Int32Array" THEN TYPES1.Int32Array
    ELSE IF value.kind = "Uint8Array" THEN TYPES1.Uint8Array
    ELSE IF value.kind = "Uint16Array" THEN TYPES1.Uint16Array
    ELSE IF value.kind = "Uint32Array" THEN TYPES1.Uint32Array
    ELSE IF value.kind = "Float32Array" THEN TYPES1.Float32Array
    ELSE IF value.kind = "Float64Array" THEN TYPES1.Float64Array
    ELSE IF value.kind = "Array" THEN TYPES1.Array
    ELSE IF value.kind = "Date" THEN TYPES1.Date
    ELSE IF TypeOf(value) = "number" THEN TYPES1.Number
    ELSE IF TypeOf(value) = "boolean" THEN TYPES1.Boolean
    ELSE IF TypeOf(value) = "object" THEN TYPES1.Object
    ELSE IF TypeOf(value) = "string" THEN TYPES1.String
    ELSE TYPES1.Null

\* value = dataView.getUint8(offset) != 0
decodeBoolean1(byte) == byte # 0

\* the typed-array constructor the first switch of readChunk picks
Ctor1(typeIndex) ==
    CHOOSE k \in TypedArrayKinds : TYPES1[k] = typeIndex

\* a call that ended by throwing `err`
Thrown(err) ==
    [typeIndex |-> 0, value |-> Null, length |-> 0, offset |-> 0, err |-> err, log |-> <<>>]

\* a call that returned; log: this call, then the calls it made (history)
Returned(typeIndex, value, length, start, offset, calls) ==
    [typeIndex |-> typeIndex, value |-> value, length |-> length, offset |-> offset,
     err |-> "",
     log |-> <<[start |-> start, end |-> offset, type |-> typeIndex, value |-> value]>>
             \o calls]

RECURSIVE readChunk1(_, _)
RECURSIVE readArray1(_, _, _, _)
RECURSIVE readObject1(_, _, _, _)

\* for (i < length) { item = readChunk(buffer, offset); ... value.push(item.value) }
readArray1(buffer, length, i, st) ==
    IF i >= length THEN st
    ELSE LET item == readChunk1(buffer, st.offset)
         IN  IF item.err # "" THEN [st EXCEPT !.err = item.err]
             ELSE readArray1(buffer, length, i + 1,
                             [value |-> Append(st.value, item.value), offset |-> item.offset,
                              err |-> "", log |-> st.log \o item.log])

\* for (i < length) { key = readChunk(..); val = readChunk(..); value[key.value] = val.value }
readObject1(buffer, length, i, st) ==
    IF i >= length THEN st
    ELSE LET key == readChunk1(buffer, st.offset)
         IN  IF key.err # "" THEN [st EXCEPT !.err = key.err]
             ELSE LET val == readChunk1(buffer, key.offset)
                  IN  IF val.err # "" THEN [st EXCEPT !.err = val.err]
                      ELSE readObject1(buffer, length, i + 1,
                               [value |-> SetProperty(st.value, ToPropertyKey(key.value),
                                                      val.value),
                                offset |-> val.offset, err |-> "",
                                log |-> st.log \o key.log \o val.log])

readChunk1(buffer, offset) ==
    IF ~InBounds(buffer, offset, 1) THEN Thrown("RangeError")
    ELSE
    LET typeIndex == getUint8(buffer, offset)
        o1 == offset + 1
        long == typeIndex >= TYPES1.Int8Array
    IN
    IF long /\ ~InBounds(buffer, o1, 4) THEN Thrown("RangeError")
    ELSE
    LET length == IF long THEN getUint32(buffer, o1) ELSE 0
        o2 == IF long THEN o1 + 4 ELSE o1
        sliced == long /\ typeIndex <= TYPES1.String
        sub == IF sliced THEN slice(buffer, o2, o2 + length) ELSE <<>>
        o3 == IF sliced THEN o2 + length ELSE o2
        start == [value |-> <<>>, offset |-> o3, err |-> "", log |-> <<>>]
    IN
    IF typeIndex >= TYPES1.Int8Array /\ typeIndex <= TYPES1.Float64Array
    THEN IF CanConstruct(Ctor1(typeIndex), sub)
         THEN Returned(typeIndex, NewTyped(Ctor1(typeIndex), sub), length, offset, o3, <<>>)
         ELSE Thrown("RangeError")
    ELSE IF typeIndex = TYPES1.String
    THEN Returned(typeIndex, Str(decode(sub)), length, offset, o3, <<>>)
    ELSE IF typeIndex = TYPES1.Null
    THEN Returned(typeIndex, Null, length, offset, o3, <<>>)
    ELSE IF typeIndex = TYPES1.Boolean
    THEN IF InBounds(buffer, o3, 1)
         THEN Returned(typeIndex, Bool(decodeBoolean1(getUint8(buffer, o3))), length, offset, o3 + 1,
                       <<>>)
         ELSE Thrown("RangeError")
    ELSE IF typeIndex = TYPES1.Number
    THEN IF InBounds(buffer, o3, 8)
         THEN Returned(typeIndex, Num(getFloat64(buffer, o3)), length, offset, o3 + 8, <<>>)
         ELSE Thrown("RangeError")
    ELSE IF typeIndex = TYPES1.Array
    THEN LET st == readArray1(buffer, length, 0, start)
         IN  IF st.err # "" THEN Thrown(st.err)
             ELSE Returned(typeIndex, Arr(st.value), length, offset, st.offset, st.log)
    ELSE IF typeIndex = TYPES1.Object
    THEN LET st == readObject1(buffer, length, 0, start)
         IN  IF st.err # "" THEN Thrown(st.err)
             ELSE Returned(typeIndex, Obj(st.value), length, offset, st.offset, st.log)
    ELSE IF typeIndex = TYPES1.Date
    THEN IF InBounds(buffer, o3, 8)
         THEN Returned(typeIndex, NewDate(getFloat64(buffer, o3)), length, offset, o3 + 8, <<>>)
         ELSE Thrown("RangeError")
    ELSE Returned(typeIndex, Null, length, offset, o3, <<>>)

RECURSIVE createChunk1(_, _)
RECURSIVE createArray1(_, _, _)
RECURSIVE createObject1(_, _, _, _)

\* for (i < value.length) { chunk = createChunk(value[i]); byteLength += ...; val.push(chunk) }
createArray1(value, i, st) ==
    IF i > Len(value.items) THEN st
    ELSE LET c == createChunk1(value.items[i], 0)
         IN  createArray1(value, i + 1,
                          [st EXCEPT !.byteLength = @ + c.byteLength, !.val = Append(@, c)])

\* for (s in value) if (value.hasOwnProperty(s)) { length++; key chunk; value chunk }
createObject1(value, keys, i, st) ==
    IF i > Len(keys) THEN st
    ELSE IF ~HasOwnProperty(value, keys[i].key) THEN createObject1(value, keys, i + 1, st)
    ELSE LET k == createChunk1(Str(keys[i].key), TYPES1.String)
             c == createChunk1(Get(value, keys[i].key), 0)
         IN  createObject1(value, keys, i + 1,
                           [length |-> st.length + 1,
                            byteLength |-> st.byteLength + k.byteLength + c.byteLength,
                            val |-> st.val \o <<k, c>>])

createChunk1(value, typeIndexArg) ==
    LET typeIndex == IF typeIndexArg = 0 THEN typeIndexOf(value) ELSE typeIndexArg
        leaf(byteLength, length, subBuffer) ==
            [byteLength |-> byteLength, length |-> length, value |-> value,
             subBuffer |-> subBuffer, typeIndex |-> typeIndex]
        node(st) ==
            [byteLength |-> st.byteLength, length |-> st.length, value |-> st.val,
             subBuffer |-> <<>>, typeIndex |-> typeIndex]
    IN
    IF typeIndex = TYPES1.Null THEN leaf(1, 0, <<>>)
    ELSE IF typeIndex = TYPES1.Boolean THEN leaf(1 + 1, 0, <<>>)
    ELSE IF typeIndex = TYPES1.Number THEN leaf(1 + 8, 0, <<>>)
    ELSE IF typeIndex >= TYPES1.Int8Array /\ typeIndex <= TYPES1.Float64Array
    THEN leaf(1 + 4 + value.byteLength, value.byteLength, <<>>)
    ELSE IF typeIndex = TYPES1.String
    THEN LET subBuffer == encode(value.units)
         IN  leaf(1 + 4 + Len(subBuffer), Len(subBuffer), subBuffer)
    ELSE IF typeIndex = TYPES1.Array
    THEN node(createArray1(value, 1,
                           [length |-> Len(value.items), byteLength |-> 1 + 4, val |-> <<>>]))
    ELSE IF typeIndex = TYPES1.Object
    THEN node(createObject1(value, ForInKeys(value), 1,
                            [length |-> 0, byteLength |-> 1 + 4, val |-> <<>>]))
    ELSE IF typeIndex = TYPES1.Date THEN leaf(1 + 8, 0, <<>>)
    ELSE leaf(0, 0, <<>>)

\* history: a writeChunk call has started at `offset`
Enter(w, offset, type) ==
    [w EXCEPT !.log = Append(@, [start |-> offset, end |-> -1, type |-> type])]

\* history: the writeChunk call entered as number `call` has returned `offset`
Leave(w, call, offset) ==
    IF w.err # "" THEN w ELSE [w EXCEPT !.log[call].end = offset]

RECURSIVE writeChunk1(_, _, _)
RECURSIVE writeChildren1(_, _, _, _)

\* for (i < value.length) offset = writeChunk(value[i], buffer, offset)
writeChildren1(value, i, w, offset) ==
    IF i > Len(value) THEN [w |-> w, offset |-> offset]
    ELSE LET r == writeChunk1(value[i], w, offset)
         IN  writeChildren1(value, i + 1, r.w, r.offset)

writeChunk1(chunk, w0, offset) ==
    LET w == Enter(w0, offset, chunk.typeIndex)
        call == Len(w.log)
        wt == setUint8(w, offset, chunk.typeIndex)
        o1 == offset + 1
        value == chunk.value
        length == chunk.length
        done(wr, o) == [w |-> Leave(wr, call, o), offset |-> o]
    IN
    IF chunk.typeIndex = TYPES1.Null THEN done(wt, o1)
    ELSE IF chunk.typeIndex = TYPES1.Boolean
    THEN done(setUint8(wt, o1, IF value.bool THEN 255 ELSE 0), o1 + 1)
    ELSE IF chunk.typeIndex = TYPES1.Number
    THEN done(setFloat64(wt, o1, value.f64), o1 + 8)
    ELSE IF chunk.typeIndex >= TYPES1.Int8Array /\ chunk.typeIndex <= TYPES1.Float64Array
    THEN done(set(setUint32(wt, o1, length), value.buffer, o1 + 4), o1 + 4 + length)
    ELSE IF chunk.typeIndex = TYPES1.String
    THEN done(set(setUint32(wt, o1, length), chunk.subBuffer, o1 + 4), o1 + 4 + length)
    ELSE IF chunk.typeIndex = TYPES1.Array \/ chunk.typeIndex = TYPES1.Object
    THEN LET r == writeChildren1(value, 1, setUint32(wt, o1, length), o1 + 4)
         IN  done(r.w, r.offset)
    ELSE IF chunk.typeIndex = TYPES1.Date
    THEN done(setFloat64(wt, o1, value.time), o1 + 8)
    ELSE done(wt, o1)

\* serialize: the chunk tree, the allocation, the write
serialize1(value) ==
    LET c == createChunk1(value, 0)
        r == writeChunk1(c, NewWriter(c.byteLength), 0)
    IN  [chunk |-> c, size |-> c.byteLength, w |-> r.w, offset |-> r.offset]

deserialize1(buffer) == readChunk1(buffer, 0)

(* ======================= second implementation ========================= *)

TYPES2 ==
    [Null |-> 1, Boolean |-> 2, Number |-> 3, Date |-> 4, String |-> 5, Array |-> 6,
     Object |-> 7,
     Int8Array |-> 10, Int16Array |-> 11, Int32Array |-> 12, Uint8Array |-> 13,
     Uint16Array |-> 14, Uint32Array |-> 15, Float32Array |-> 16, Float64Array |-> 17]

TYPED_ARRAY_TYPES ==
    [code \in {TYPES2[k] : k \in TypedArrayKinds} |->
        CHOOSE k \in TypedArrayKinds : TYPES2[k] = code]

\* TYPED_ARRAY_TYPES[type] is truthy
IsTypedArrayType(type) == type \in DOMAIN TYPED_ARRAY_TYPES

\* getTypeCode with the last test widened to typeof 'function': a function is
\* then encoded as an (empty) object instead of null
getTypeCodeFunctionsAreObjects(value) ==
    IF value.kind = "null" \/ value.kind = "undefined" THEN TYPES2.Null
    ELSE IF TypeOf(value) = "boolean" THEN TYPES2.Boolean
    ELSE IF TypeOf(value) = "number" THEN TYPES2.Number
    ELSE IF TypeOf(value) = "string" THEN TYPES2.String
    ELSE IF value.kind = "Date" THEN TYPES2.Date
    ELSE IF value.kind = "Array" THEN TYPES2.Array
    ELSE IF value.kind \in TypedArrayKinds THEN TYPES2[value.kind]
    ELSE IF TypeOf(value) = "object" \/ TypeOf(value) = "function" THEN TYPES2.Object
    ELSE TYPES2.Null

getTypeCode(value) ==
    IF value.kind = "null" \/ value.kind = "undefined" THEN TYPES2.Null
    ELSE IF TypeOf(value) = "boolean" THEN TYPES2.Boolean
    ELSE IF TypeOf(value) = "number" THEN TYPES2.Number
    ELSE IF TypeOf(value) = "string" THEN TYPES2.String
    ELSE IF value.kind = "Date" THEN TYPES2.Date
    ELSE IF value.kind = "Array" THEN TYPES2.Array
    ELSE IF value.kind = "Int8Array" THEN TYPES2.Int8Array
    ELSE IF value.kind = "Int16Array" THEN TYPES2.Int16Array
    ELSE IF value.kind = "Int32Array" THEN TYPES2.Int32Array
    ELSE IF value.kind = "Uint8Array" THEN TYPES2.Uint8Array
    ELSE IF value.kind = "Uint16Array" THEN TYPES2.Uint16Array
    ELSE IF value.kind = "Uint32Array" THEN TYPES2.Uint32Array
    ELSE IF value.kind = "Float32Array" THEN TYPES2.Float32Array
    ELSE IF value.kind = "Float64Array" THEN TYPES2.Float64Array
    ELSE IF TypeOf(value) = "object" THEN TYPES2.Object
    ELSE TYPES2.Null

\* the Boolean case of readChunk reading true from 0xFF alone
decodeBooleanOnlyFF(byte) == byte = 255

\* value: view.getUint8(offset++) !== 0
decodeBoolean2(byte) == byte # 0

\* a call that ended by throwing `err`
Thrown2(err) == [value |-> Null, offset |-> 0, err |-> err, log |-> <<>>]

\* a call that returned; log: this call, then the calls it made (history)
Returned2(type, value, start, offset, calls) ==
    [value |-> value, offset |-> offset, err |-> "",
     log |-> <<[start |-> start, end |-> offset, type |-> type, value |-> value]>> \o calls]

RECURSIVE readChunk2(_, _)
RECURSIVE readArray2(_, _, _, _)
RECURSIVE readObject2(_, _, _, _)

\* for (i < length) { result = readChunk(buffer, offset); ... arr.push(result.value) }
readArray2(buffer, length, i, st) ==
    IF i >= length THEN st
    ELSE LET item == readChunk2(buffer, st.offset)
         IN  IF item.err # "" THEN [st EXCEPT !.err = item.err]
             ELSE readArray2(buffer, length, i + 1,
                             [value |-> Append(st.value, item.value), offset |-> item.offset,
                              err |-> "", log |-> st.log \o item.log])

\* for (i < length) { keyResult; valResult; obj[keyResult.value] = valResult.value }
readObject2(buffer, length, i, st) ==
    IF i >= length THEN st
    ELSE LET keyResult == readChunk2(buffer, st.offset)
         IN  IF keyResult.err # "" THEN [st EXCEPT !.err = keyResult.err]
             ELSE LET valResult == readChunk2(buffer, keyResult.offset)
                  IN  IF valResult.err # "" THEN [st EXCEPT !.err = valResult.err]
                      ELSE readObject2(buffer, length, i + 1,
                               [value |-> SetProperty(st.value,
                                                      ToPropertyKey(keyResult.value),
                                                      valResult.value),
                                offset |-> valResult.offset, err |-> "",
                                log |-> st.log \o keyResult.log \o valResult.log])

readChunk2(buffer, offset) ==
    IF ~InBounds(buffer, offset, 1) THEN Thrown2("RangeError")
    ELSE
    LET type == getUint8(buffer, offset)
        o1 == offset + 1
    IN
    IF type = TYPES2.Null THEN Returned2(type, Null, offset, o1, <<>>)
    ELSE IF type = TYPES2.Boolean
    THEN IF InBounds(buffer, o1, 1)
         THEN Returned2(type, Bool(decodeBoolean2(getUint8(buffer, o1))), offset, o1 + 1, <<>>)
         ELSE Thrown2("RangeError")
    ELSE IF type = TYPES2.Number
    THEN IF InBounds(buffer, o1, 8)
         THEN Returned2(type, Num(getFloat64(buffer, o1)), offset, o1 + 8, <<>>)
         ELSE Thrown2("RangeError")
    ELSE IF type = TYPES2.Date
    THEN IF InBounds(buffer, o1, 8)
         THEN Returned2(type, NewDate(getFloat64(buffer, o1)), offset, o1 + 8, <<>>)
         ELSE Thrown2("RangeError")
    ELSE IF ~InBounds(buffer, o1, 4) THEN Thrown2("RangeError")
    ELSE
    LET length == getUint32(buffer, o1)
        o2 == o1 + 4
        start == [value |-> <<>>, offset |-> o2, err |-> "", log |-> <<>>]
    IN
    IF IsTypedArrayType(type) \/ type = TYPES2.String
    THEN LET sliced == slice(buffer, o2, o2 + length)
             o3 == o2 + length
         IN  IF type = TYPES2.String
             THEN Returned2(type, Str(decode(sliced)), offset, o3, <<>>)
             ELSE IF CanConstruct(TYPED_ARRAY_TYPES[type], sliced)
             THEN Returned2(type, NewTyped(TYPED_ARRAY_TYPES[type], sliced), offset, o3, <<>>)
             ELSE Thrown2("RangeError")
    ELSE IF type = TYPES2.Array
    THEN LET st == readArray2(buffer, length, 0, start)
         IN  IF st.err # "" THEN Thrown2(st.err)
             ELSE Returned2(type, Arr(st.value), offset, st.offset, st.log)
    ELSE IF type = TYPES2.Object
    THEN LET st == readObject2(buffer, length, 0, start)
         IN  IF st.err # "" THEN Thrown2(st.err)
             ELSE Returned2(type, Obj(st.value), offset, st.offset, st.log)
    ELSE Thrown2("Unknown type code")

\* chunk.data: a Uint8Array of payload bytes or an Array of chunks
NoData == [isArray |-> FALSE, elems |-> <<>>]
ByteData(bytes) == [isArray |-> FALSE, elems |-> bytes]
ChunkData(chunks) == [isArray |-> TRUE, elems |-> chunks]

\* throw new Error('Unsupported value'): no chunk; serialize ends with the error
Unsupported == [type |-> 0, length |-> 0, data |-> NoData, value |-> <<>>]

RECURSIVE createChunk2(_)
RECURSIVE createEntries2(_, _, _, _)

\* for (key in value) if (hasOwnProperty(value, key)) { entries.push(key chunk, value chunk) }
createEntries2(value, keys, i, entries) ==
    IF i > Len(keys) THEN entries
    ELSE IF ~HasOwnProperty(value, keys[i].key) THEN createEntries2(value, keys, i + 1, entries)
    ELSE createEntries2(value, keys, i + 1,
                        entries \o <<createChunk2(Str(keys[i].key)),
                                     createChunk2(Get(value, keys[i].key))>>)

createChunk2(value) ==
    LET type == getTypeCode(value)
    IN
    IF type = TYPES2.Null
    THEN [type |-> type, length |-> 0, data |-> NoData, value |-> <<>>]
    ELSE IF type = TYPES2.Boolean
    THEN [type |-> type, length |-> 0, data |-> NoData,
          value |-> IF value.bool THEN 255 ELSE 0]
    ELSE IF type = TYPES2.Number
    THEN [type |-> type, length |-> 0, data |-> NoData, value |-> value.f64]
    ELSE IF type = TYPES2.Date
    THEN [type |-> type, length |-> 0, data |-> NoData, value |-> value.time]
    ELSE IF type = TYPES2.String
    THEN LET data == encode(value.units)
         IN  [type |-> type, length |-> Len(data), data |-> ByteData(data), value |-> <<>>]
    ELSE IF IsTypedArrayType(type)
    THEN [type |-> type, length |-> value.byteLength, data |-> ByteData(ViewBytes(value)),
          value |-> <<>>]
    ELSE IF type = TYPES2.Array
    THEN LET items == [i \in 1..Len(value.items) |-> createChunk2(value.items[i])]
         IN  [type |-> type, length |-> Len(items), data |-> ChunkData(items), value |-> <<>>]
    ELSE IF type = TYPES2.Object
    THEN LET entries == createEntries2(value, ForInKeys(value), 1, <<>>)
         IN  [type |-> type, length |-> Len(entries) \div 2, data |-> ChunkData(entries),
              value |-> <<>>]
    ELSE Unsupported

RECURSIVE writeChunk2(_, _, _)
RECURSIVE writeChildren2(_, _, _, _)

\* for (const sub of chunk.data) offset = writeChunk(sub, buffer, offset)
writeChildren2(data, i, w, offset) ==
    IF i > Len(data) THEN [w |-> w, offset |-> offset]
    ELSE LET r == writeChunk2(data[i], w, offset)
         IN  writeChildren2(data, i + 1, r.w, r.offset)

writeChunk2(chunk, w0, offset) ==
    LET w == Enter(w0, offset, chunk.type)
        call == Len(w.log)
        wt == setUint8(w, offset, chunk.type)
        o1 == offset + 1
        done(wr, o) == [w |-> Leave(wr, call, o), offset |-> o]
    IN
    IF chunk.type = TYPES2.Null THEN done(wt, o1)
    ELSE IF chunk.type = TYPES2.Boolean THEN done(setUint8(wt, o1, chunk.value), o1 + 1)
    ELSE IF chunk.type = TYPES2.Number THEN done(setFloat64(wt, o1, chunk.value), o1 + 8)
    ELSE IF chunk.type = TYPES2.Date THEN done(setFloat64(wt, o1, chunk.value), o1 + 8)
    ELSE
    LET wl == setUint32(wt, o1, chunk.length)
        o2 == o1 + 4
    IN
    IF IsTypedArrayType(chunk.type) \/ chunk.type = TYPES2.String
    THEN done(set(wl, chunk.data.elems, o2), o2 + chunk.length)
    ELSE IF chunk.data.isArray
    THEN LET r == writeChildren2(chunk.data.elems, 1, wl, o2)
         IN  done(r.w, r.offset)
    ELSE done(wl, o2)

RECURSIVE calculateSize(_)
RECURSIVE sumSizes(_, _)

\* for (const sub of chunk.data) size += calculateSize(sub)
sumSizes(data, i) ==
    IF i > Len(data) THEN 0 ELSE calculateSize(data[i]) + sumSizes(data, i + 1)

calculateSize(chunk) ==
    IF chunk.type = TYPES2.Null THEN 1
    ELSE IF chunk.type = TYPES2.Boolean THEN 2
    ELSE IF chunk.type = TYPES2.Number \/ chunk.type = TYPES2.Date THEN 9
    ELSE IF IsTypedArrayType(chunk.type) \/ chunk.type = TYPES2.String
    THEN 1 + 4 + chunk.length
    ELSE IF chunk.type = TYPES2.Array \/ chunk.type = TYPES2.Object
    THEN 1 + 4 + (IF chunk.data.isArray THEN sumSizes(chunk.data.elems, 1) ELSE 0)
    ELSE 0

\* TORM.serialize: the chunk tree, its size, the allocation, the write
serialize2(value) ==
    LET c == createChunk2(value)
        n == calculateSize(c)
        r == writeChunk2(c, NewWriter(n), 0)
    IN  IF c.type = Unsupported.type
        THEN [chunk |-> c, size |-> 0, w |-> [NewWriter(0) EXCEPT !.err = "Unsupported value"],
              offset |-> 0]
        ELSE [chunk |-> c, size |-> n, w |-> r.w, offset |-> r.offset]

\* TORM.deserialize
deserialize2(buffer) ==
    IF Len(buffer) = 0 THEN Thrown2("Empty buffer") ELSE readChunk2(buffer, 0)

(* ============================= inputs ================================== *)

\* 'h', 'i', e-acute (two bytes in UTF-8), U+FEFF (three bytes)
CodeUnits == {104, 105, 233, 65279}

Strings == {Str(s) : s \in SeqsUpTo(CodeUnits, MaxStrLen)}

Numbers == {Num(Zero), Num(One), Num(PI), Num(NaN)}

Dates == {DateOf(Zero), DateOf(One), DateOf(MaxTime), DateOf(NaN)}

Scalars == {Null, Undefined, Function, Bool(TRUE), Bool(FALSE)} \cup Numbers \cup Dates

\* the bytes 1, 2, .., n: each byte names its place in the ArrayBuffer
Pattern(n) == [i \in 1..n |-> i]

\* every typed array over an ArrayBuffer of up to MaxTAElems elements: the
\* whole buffer, or a view with its own offset and length
TypedArrays ==
    {Typed(k, Pattern(n * BYTES_PER_ELEMENT[k]), o * BYTES_PER_ELEMENT[k],
           l * BYTES_PER_ELEMENT[k]) :
        k \in TypedArrayKinds,
        <<n, o, l>> \in {t \in (0..MaxTAElems) \X (0..MaxTAElems) \X (0..MaxTAElems) :
                            t[2] + t[3] <= t[1]}}

\* the values put inside arrays and objects
Elements ==
    {Null, Undefined, Function, Bool(TRUE), Num(One), Str(<<104>>),
     Typed("Uint8Array", Pattern(3), 1, 1), Typed("Int16Array", Pattern(2), 0, 2)}

Arrays == {Arr(s) : s \in SeqsUpTo(Elements, MaxArrLen)}

\* "a", "b", "1", "__proto__"
Keys == {<<97>>, <<98>>, <<49>>, ProtoKey}

PropertyValues == {Null, Bool(FALSE), Str(<<104>>), Typed("Uint8Array", Pattern(2), 1, 1)}

\* the order of an object's own keys: distinct, array indices first and ascending
OwnKeyOrder(entries) ==
    \A i, j \in 1..Len(entries) :
        i < j =>
            /\ entries[i].key # entries[j].key
            /\ IsIndex(entries[j].key) =>
                  /\ IsIndex(entries[i].key)
                  /\ IndexValue(entries[i].key) < IndexValue(entries[j].key)

Objects ==
    {Obj(e) : e \in {s \in SeqsUpTo([key : Keys, val : PropertyValues], MaxArrLen) :
                        OwnKeyOrder(s)}}

\* arrays and objects one level down
Inner == {Arr(<<>>), Arr(<<Bool(FALSE)>>), Obj(<<>>), Obj(<<[key |-> <<97>>, val |-> Num(One)]>>)}

Nested ==
    {Arr(<<x>>) : x \in Inner} \cup {Arr(<<x, Str(<<105>>)>>) : x \in Inner}
    \cup {Obj(<<[key |-> <<97>>, val |-> x]>>) : x \in Inner}
    \cup {Obj(<<[key |-> <<49>>, val |-> Null], [key |-> <<98>>, val |-> x]>>) : x \in Inner}

\* objects that inherit enumerable properties
Inheriting ==
    {[kind |-> "Object", own |-> own, inherited |-> <<[key |-> <<98>>, val |-> Bool(TRUE)]>>] :
        own \in {<<>>, <<[key |-> <<97>>, val |-> Null]>>}}

\* objects of a shape the codec does not support: a Map, bare or with a
\* property of its own
Maps ==
    {[kind |-> "Map", own |-> own, inherited |-> <<>>] :
        own \in {<<>>, <<[key |-> <<97>>, val |-> Bool(TRUE)]>>}}

Inputs ==
    Scalars \cup Strings \cup TypedArrays \cup Arrays \cup Objects \cup Nested
    \cup Inheriting \cup Maps

\* the inputs whose encodings are then damaged
WireInputs ==
    {Null, Bool(TRUE), Bool(FALSE), Num(One), DateOf(One), Str(<<104, 105>>), Str(<<233>>),
     Typed("Uint8Array", Pattern(2), 0, 2), Typed("Int16Array", Pattern(2), 0, 2),
     Arr(<<Bool(TRUE), Null>>), Arr(<<Str(<<104>>), Bool(FALSE)>>),
     Arr(<<Arr(<<Bool(TRUE)>>), Num(Zero)>>),
     Obj(<<[key |-> <<97>>, val |-> Bool(TRUE)]>>),
     Obj(<<[key |-> <<97>>, val |-> Arr(<<Bool(FALSE)>>)]>>)}

\* the bytes a damaged encoding gets: 0, 9 and 255 are no type code of either
\* implementation, 19 lies between the first one's typed arrays and String
PokeBytes == {0, 1, 2, 9, 19, 255}

(* =========================== state machine ============================= *)

NotDecoded == [value |-> Null, offset |-> 0, err |-> "", log |-> <<>>]

Start(values) ==
    /\ impl = 0
    /\ original \in values
    /\ pc = "start"
    /\ tree = <<>>
    /\ allocated = 0
    /\ writer = NewWriter(0)
    /\ written = 0
    /\ wire = <<>>
    /\ decoded = NotDecoded

Init == Start(Inputs)

InitWire == Start(WireInputs)

Serialized(i, r) ==
    /\ impl' = i
    /\ tree' = r.chunk
    /\ allocated' = r.size
    /\ writer' = r.w
    /\ written' = r.offset
    /\ wire' = IF r.w.err = "" THEN r.w.buffer ELSE <<>>
    /\ pc' = IF r.w.err = "" THEN "serialized" ELSE "threw"
    /\ UNCHANGED <<original, decoded>>

Serialize1 ==
    /\ pc = "start"
    /\ Serialized(1, serialize1(original))

Serialize2 ==
    /\ pc = "start"
    /\ Serialized(2, serialize2(original))

Deserialized(r) ==
    /\ decoded' = [value |-> r.value, offset |-> r.offset, err |-> r.err, log |-> r.log]
    /\ pc' = IF pc = "serialized" THEN "roundtrip" ELSE "decoded"
    /\ UNCHANGED <<impl, original, tree, allocated, writer, written, wire>>

Deserialize1 ==
    /\ pc \in {"serialized", "damaged"}
    /\ impl = 1
    /\ Deserialized(deserialize1(wire))

Deserialize2 ==
    /\ pc \in {"serialized", "damaged"}
    /\ impl = 2
    /\ Deserialized(deserialize2(wire))

\* the buffer reaches the decoder cut short
Truncate ==
    /\ pc = "serialized"
    /\ \E n \in 0..(Len(wire) - 1) : wire' = SubSeq(wire, 1, n)
    /\ pc' = "damaged"
    /\ UNCHANGED <<impl, original, tree, allocated, writer, written, decoded>>

\* the buffer reaches the decoder with one byte changed
Poke ==
    /\ pc = "serialized"
    /\ \E i \in 1..Len(wire), b \in PokeBytes :
          /\ b # wire[i]
          /\ wire' = [wire EXCEPT ![i] = b]
    /\ pc' = "damaged"
    /\ UNCHANGED <<impl, original, tree, allocated, writer, written, decoded>>

Next == Serialize1 \/ Serialize2 \/ Deserialize1 \/ Deserialize2

Spec == Init /\ [][Next]_vars

NextWire == Serialize1 \/ Serialize2 \/ Truncate \/ Poke \/ Deserialize1 \/ Deserialize2

SpecWire == InitWire /\ [][NextWire]_vars

(* ============================== claims ================================= *)

\* every value of the tree under v, v included
RECURSIVE Subvalues(_)
Subvalues(v) ==
    {v} \cup
    (IF v.kind = "Array" THEN UNION {Subvalues(v.items[i]) : i \in 1..Len(v.items)}
     ELSE IF v.kind \in {"Object", "Map"}
     THEN UNION {Subvalues(v.own[i].val) : i \in 1..Len(v.own)}
     ELSE {})

\* the supported domain: no object of an unsupported shape anywhere in the tree
Supported(v) == \A x \in Subvalues(v) : x.kind # "Map"

\* the value deep-equal to v that a round trip is to give back: undefined and
\* functions as null, a typed array as its own elements, an object as its own
\* entries
RECURSIVE Expected(_)
Expected(v) ==
    IF v.kind \in {"undefined", "function"} THEN Null
    ELSE IF v.kind = "Array" THEN Arr([i \in 1..Len(v.items) |-> Expected(v.items[i])])
    ELSE IF v.kind = "Object"
    THEN Obj([i \in 1..Len(v.own) |-> [key |-> v.own[i].key, val |-> Expected(v.own[i].val)]])
    ELSE IF v.kind \in TypedArrayKinds THEN Typed(v.kind, ViewBytes(v), 0, v.byteLength)
    ELSE v

\* the type codes of the implementation that ran
TYPES == IF impl = 1 THEN TYPES1 ELSE TYPES2

Registered == {TYPES[k] : k \in DOMAIN TYPES}

\* the type code of the root chunk
RootType == IF impl = 1 THEN tree.typeIndex ELSE tree.type

\* C1: for every supported value v, deserialize(serialize(v)) is deep-equal to
\* v, undefined and functions coming back as null.
RoundTripIdentity ==
    Supported(original) =>
        /\ pc # "threw"
        /\ pc = "roundtrip" => decoded.err = "" /\ decoded.value = Expected(original)

\* the values of the tree in the order createChunk visits them, every
\* object key as the string it is encoded as
RECURSIVE Preorder(_)
RECURSIVE PreorderItems(_, _)
RECURSIVE PreorderEntries(_, _)
PreorderItems(items, i) ==
    IF i > Len(items) THEN <<>> ELSE Preorder(items[i]) \o PreorderItems(items, i + 1)
PreorderEntries(own, i) ==
    IF i > Len(own) THEN <<>>
    ELSE <<Str(own[i].key)>> \o Preorder(own[i].val) \o PreorderEntries(own, i + 1)
Preorder(v) ==
    <<v>> \o (IF v.kind = "Array" THEN PreorderItems(v.items, 1)
              ELSE IF v.kind \in {"Object", "Map"} THEN PreorderEntries(v.own, 1)
              ELSE <<>>)

AfterSerialize == impl # 0

AfterDeserialize == pc \in {"roundtrip", "decoded"}

\* the start, end and type of every call of a log
Spans(log) == [k \in 1..Len(log) |-> <<log[k].start, log[k].end, log[k].type>>]

\* every write but the first starts where the one before it ended: after the
\* 5-byte header of the enclosing array or object, or after the previous chunk
Threaded(log) ==
    /\ Len(log) > 0 => log[1].start = 0
    /\ \A k \in 1..(Len(log) - 1) :
          log[k + 1].start = IF log[k].type \in {TYPES.Array, TYPES.Object}
                             THEN log[k].start + 5
                             ELSE log[k].end

\* C2: the buffer serialize allocates is exactly as long as the chunk tree
\* says, writeChunk started at 0 returns that length, every byte is written
\* exactly once, no write goes past the end and each write starts where the
\* previous one ended; also for typed arrays that are views.
ExactSizing ==
    (AfterSerialize /\ Supported(original)) =>
        /\ writer.err = ""
        /\ Len(writer.buffer) = allocated
        /\ written = allocated
        /\ \A i \in 1..Len(writer.count) : writer.count[i] = 1
        /\ Threaded(writer.log)

\* C3: deserialize never returns a value when readChunk, at any depth, has
\* read a tag byte that is no registered type code.
UnknownTagFails ==
    (AfterDeserialize /\ decoded.err = "") =>
        \A k \in 1..Len(decoded.log) : decoded.log[k].type \in Registered

TypedArrayByteExact ==
    (AfterSerialize /\ Supported(original)) =>
        \A k \in 1..Len(Preorder(original)) :
            LET a == Preorder(original)[k] IN
            a.kind \in TypedArrayKinds =>
                /\ pc # "threw"
                /\ SubSeq(writer.buffer, writer.log[k].start + 1,
                          writer.log[k].start + 5 + a.byteLength)
                      = <<TYPES[a.kind]>> \o Uint32Bytes(a.byteLength) \o ViewBytes(a)
                /\ writer.log[k].end = writer.log[k].start + 5 + a.byteLength
                /\ pc = "roundtrip" =>
                      /\ decoded.err = ""
                      /\ decoded.log[k].value = Expected(a)

\* where the chunk of value v that starts at offset o of buffer b ends when b
\* holds, at o, a chunk of the grammar in the shape of v; -1 when it does not
RECURSIVE ChunkEnd(_, _, _)
RECURSIVE ItemsEnd(_, _, _, _)
RECURSIVE EntriesEnd(_, _, _, _)
ItemsEnd(items, i, b, o) ==
    IF o = -1 \/ i > Len(items) THEN o
    ELSE ItemsEnd(items, i + 1, b, ChunkEnd(items[i], b, o))
EntriesEnd(own, i, b, o) ==
    IF o = -1 \/ i > Len(own) THEN o
    ELSE LET k == ChunkEnd(Str(own[i].key), b, o)
         IN  EntriesEnd(own, i + 1, b, IF k = -1 THEN -1 ELSE ChunkEnd(own[i].val, b, k))
ChunkEnd(v, b, o) ==
    LET has(n) == o + n <= Len(b)
        prefix(n) == has(5) /\ SubSeq(b, o + 2, o + 5) = Uint32Bytes(n)
        bytes(n) == IF prefix(n) /\ has(5 + n) THEN o + 5 + n ELSE -1
    IN
    IF ~has(1) THEN -1
    ELSE IF v.kind \in {"null", "undefined", "function"}
    THEN IF b[o + 1] = TYPES.Null THEN o + 1 ELSE -1
    ELSE IF v.kind = "boolean"
    THEN IF b[o + 1] = TYPES.Boolean /\ has(2) THEN o + 2 ELSE -1
    ELSE IF v.kind = "number"
    THEN IF b[o + 1] = TYPES.Number /\ has(9) /\ SubSeq(b, o + 2, o + 9) = v.f64
         THEN o + 9 ELSE -1
    ELSE IF v.kind = "Date"
    THEN IF b[o + 1] = TYPES.Date /\ has(9) /\ SubSeq(b, o + 2, o + 9) = v.time
         THEN o + 9 ELSE -1
    ELSE IF v.kind = "string"
    THEN IF b[o + 1] = TYPES.String THEN bytes(Len(encode(v.units))) ELSE -1
    ELSE IF v.kind \in TypedArrayKinds
    THEN IF b[o + 1] = TYPES[v.kind] THEN bytes(v.byteLength) ELSE -1
    ELSE IF v.kind = "Array"
    THEN IF b[o + 1] = TYPES.Array /\ prefix(Len(v.items))
         THEN ItemsEnd(v.items, 1, b, o + 5) ELSE -1
    ELSE IF b[o + 1] = TYPES.Object /\ prefix(Len(v.own))
         THEN EntriesEnd(v.own, 1, b, o + 5) ELSE -1

\* C6: serialize(v) is exactly one chunk of the grammar, in the shape of v;
\* null is the byte 0x01 and "hi" the String tag, 00 00 00 02, 68 69.
WireGrammar ==
    (AfterSerialize /\ Supported(original)) =>
        /\ pc # "threw"
        /\ ChunkEnd(original, writer.buffer, 0) = Len(writer.buffer)
        /\ original = Null => writer.buffer = <<1>>
        /\ original = Str(<<104, 105>>) => writer.buffer = <<TYPES.String, 0, 0, 0, 2, 104, 105>>

\* the chunks under the root chunk
RootChildren == IF impl = 1 THEN tree.value ELSE tree.data.elems
ChunkType(c) == IF impl = 1 THEN c.typeIndex ELSE c.type
ChunkBytes(c) == IF impl = 1 THEN c.subBuffer ELSE c.data.elems
TagOf(v) == IF impl = 1 THEN typeIndexOf(v) ELSE getTypeCode(v)

\* C7: the Object chunk of an object with n own entries declares n and has
\* 2n children, a String key chunk then a value chunk per entry in the
\* object's key order, and the round trip gives the same keys in the same
\* order with the same values.
ObjectKeyOrder ==
    (AfterSerialize /\ original.kind = "Object" /\ Supported(original)) =>
        /\ pc # "threw"
        /\ tree.length = Len(original.own)
        /\ Len(RootChildren) = 2 * Len(original.own)
        /\ \A i \in 1..Len(original.own) :
              /\ ChunkType(RootChildren[2 * i - 1]) = TYPES.String
              /\ ChunkBytes(RootChildren[2 * i - 1]) = encode(original.own[i].key)
              /\ ChunkType(RootChildren[2 * i]) = TagOf(original.own[i].val)
        /\ pc = "roundtrip" =>
              /\ decoded.err = ""
              /\ decoded.value.kind = "Object"
              /\ decoded.value.own = Expected(original).own

\* the payload byte of the Boolean chunk that starts at offset `start`
BooleanPayload(buffer, start) == buffer[start + 2]

\* every Boolean chunk serialize has written carries 0xFF for true, 0x00 for false
EmitsBooleans ==
    (AfterSerialize /\ writer.err = "") =>
        \A k \in 1..Len(writer.log) :
            writer.log[k].type = TYPES.Boolean =>
                BooleanPayload(writer.buffer, writer.log[k].start)
                    = IF Preorder(original)[k].bool THEN 255 ELSE 0

\* C8, as claimed: a Boolean chunk is written with 0xFF for true and 0x00 for
\* false, and is decoded to true only from 0xFF and to false only from 0x00.
BooleanPayloadStrict ==
    /\ EmitsBooleans
    /\ (AfterDeserialize /\ decoded.err = "") =>
          \A k \in 1..Len(decoded.log) :
              decoded.log[k].type = TYPES.Boolean =>
                  BooleanPayload(wire, decoded.log[k].start)
                      = IF decoded.log[k].value.bool THEN 255 ELSE 0

\* C8, amended: a Boolean chunk is written with 0xFF for true and 0x00 for
\* false, and is decoded to false from 0x00 and to true from every other byte.
BooleanPayloadAmended ==
    /\ EmitsBooleans
    /\ (AfterDeserialize /\ decoded.err = "") =>
          \A k \in 1..Len(decoded.log) :
              decoded.log[k].type = TYPES.Boolean =>
                  decoded.log[k].value.bool = (BooleanPayload(wire, decoded.log[k].start) # 0)

\* C8 witness: a Boolean chunk whose payload is neither 0x00 nor 0xFF has been
\* decoded, to true
OddBooleanDecoded ==
    /\ pc = "decoded"
    /\ decoded.err = ""
    /\ \E k \in 1..Len(decoded.log) :
          /\ decoded.log[k].type = TYPES.Boolean
          /\ BooleanPayload(wire, decoded.log[k].start) \notin {0, 255}
          /\ decoded.log[k].value.bool

\* C9: deserialize fails whenever a chunk needs bytes beyond the end of the
\* buffer: when it returns a value, no chunk it read ends past the buffer's
\* end and neither does the final cursor.
NoSwallowedTruncation ==
    (AfterDeserialize /\ decoded.err = "") =>
        /\ decoded.offset <= Len(wire)
        /\ \A k \in 1..Len(decoded.log) : decoded.log[k].end <= Len(wire)

\* C10: decoding serialize(v) ends at the buffer's length, and every
\* readChunk call starts and ends where the corresponding writeChunk call did.
ReadsWhatWasWritten ==
    (AfterSerialize /\ Supported(original)) =>
        /\ pc # "threw"
        /\ pc = "roundtrip" =>
              /\ decoded.err = ""
              /\ decoded.offset = Len(wire)
              /\ Spans(decoded.log) = Spans(writer.log)

(* --------- what holds where the claims above fail (for the record) ------ *)

\* a typed array that does not span its whole ArrayBuffer
HasView(v) ==
    \E x \in Subvalues(v) : x.kind \in TypedArrayKinds /\ Len(x.buffer) # x.byteLength

\* a string that starts with U+FEFF
HasLeadingBOM(v) ==
    \E x \in Subvalues(v) : x.kind = "string" /\ Len(x.units) > 0 /\ x.units[1] = 65279

\* an object with an own property named "__proto__"
HasOwnProto(v) ==
    \E x \in Subvalues(v) :
        x.kind = "Object" /\ \E i \in 1..Len(x.own) : x.own[i].key = ProtoKey

\* the first implementation given a typed-array view
ViewInFirst == impl = 1 /\ HasView(original)

\* The round trip is the identity but for three inputs: a view in the first
\* implementation, a string with a leading U+FEFF, an own key "__proto__".
RoundTripElsewhere ==
    (~ViewInFirst /\ ~HasLeadingBOM(original) /\ ~HasOwnProto(original)) => RoundTripIdentity

\* Objects keep their entries and order but for a view in the first
\* implementation and an own key "__proto__".
ObjectKeyOrderElsewhere ==
    (~ViewInFirst /\ ~HasOwnProto(original)) => ObjectKeyOrder

\* Sizing, the typed-array payload, the grammar and the cursor hold of every
\* input that is not a view given to the first implementation.
EncodingElsewhere ==
    ~ViewInFirst =>
        ExactSizing /\ TypedArrayByteExact /\ WireGrammar /\ ReadsWhatWasWritten

\* The second implementation fails on every unregistered tag.
UnknownTagFailsInSecond == impl = 2 => UnknownTagFails

\* Neither implementation returns a value when a tag byte, a fixed payload,
\* a 4-byte prefix or a child chunk lies beyond the end of the buffer: only
\* the payload of a String or typed array may be cut short.
OnlySlicesAreCutShort ==
    (AfterDeserialize /\ decoded.err = "") =>
        \A k \in 1..Len(decoded.log) :
            decoded.log[k].end > Len(wire) =>
                \E j \in k..Len(decoded.log) :
                    /\ decoded.log[j].end = decoded.log[k].end
                    /\ decoded.log[j].type \notin
                          {TYPES.Null, TYPES.Boolean, TYPES.Number, TYPES.Date,
                           TYPES.Array, TYPES.Object}
                    /\ decoded.log[j].start + 5 <= Len(wire)

====
